---- MODULE Spec2Model ----
(***************************************************************************)
(* Idea-intake pipeline of uply-idea-bot: RateLimiter, the duplicate check,*)
(* the enrichment and IdeaService.CreateAndEnrich over the ideas table.    *)
(* Every goroutine started by Bot.Start (go b.handleUpdate) is a task; a   *)
(* task runs CreateAndEnrich one external call (limiter, SQL statement,    *)
(* Claude request) at a time, so that the calls of concurrent submissions  *)
(* interleave as they do in the program.                                   *)
(***************************************************************************)
EXTENDS Integers, Sequences, FiniteSets

\* ------------------------------------------------------------------ bounds
MaxSubmissions == 4    \* submissions handled in one behaviour
MaxTime == 3           \* clock ticks in one behaviour
PerUser == 2           \* cfg.RateLimit.PerUser  (RATE_LIMIT_PER_USER)
Global == 3            \* cfg.RateLimit.Global   (RATE_LIMIT_GLOBAL)
MaxIdeas == 2          \* rows the ideas table takes in one behaviour

\* goroutine slots handling a submission at the same time, and submitters
Tasks == {1, 2}
Users == {1, 2}

\* time.Hour in clock ticks; chosen so that Hour/PerUser and Hour/Global are
\* whole numbers of ticks
Hour == PerUser * Global

Min(a, b) == IF a < b THEN a ELSE b

\* ------------------------------------------------- golang.org/x/time/rate
\* A limiter holds its tokens in units of 1/every of a token: one unit is
\* gained per clock tick, a token costs `every` units, the bucket holds at
\* most burst tokens.

\* rate.Every(time.Hour / time.Duration(n)): ticks between two tokens
Every(n) == Hour \div n

\* rate.NewLimiter(rate.Every(time.Hour/time.Duration(n)), n): starts full
NewLimiter(n) == [tokens |-> n * Every(n), every |-> Every(n), burst |-> n]

\* whether lim.Allow() finds a token
HasToken(lim) == lim.tokens >= lim.every

\* the limiter after an Allow() that found a token
TakeToken(lim) == [lim EXCEPT !.tokens = lim.tokens - lim.every]

\* the limiter one clock tick later
Advance(lim) == [lim EXCEPT !.tokens = Min(lim.burst * lim.every, lim.tokens + 1)]

\* lim.Allow(): the pair <<found a token, the limiter afterwards>>
LimiterAllow(lim) == IF HasToken(lim) THEN <<TRUE, TakeToken(lim)>> ELSE <<FALSE, lim>>

\* the heap slot of no limiter
Free == [tokens |-> 0, every |-> 0, burst |-> 0]

\* addresses of *rate.Limiter objects: at most one per map entry and one per
\* goroutine holding a pointer
Addrs == 1..(Cardinality(Users) + Cardinality(Tasks))

\* ----------------------------------------------------------- domain model
\* A Go slice: nil, or a sequence of strings (possibly empty)
NilSlice == [nil |-> TRUE, elems |-> <<>>]
Slice(q) == [nil |-> FALSE, elems |-> q]

\* model.EnrichedIdea; nil: a nil *EnrichedIdea
NilEnriched ==
    [nil |-> TRUE, Title |-> "", Summary |-> "", DetailedDesc |-> "", Category |-> "",
     Priority |-> "", Complexity |-> "", AffectedComponents |-> NilSlice,
     UserStory |-> "", AcceptanceCriteria |-> NilSlice, TechnicalNotes |-> "",
     RelatedFeatures |-> NilSlice, PotentialRisks |-> NilSlice]

\* `var enriched model.EnrichedIdea`: the zero value
ZeroEnriched == [NilEnriched EXCEPT !.nil = FALSE]

\* A JSON value: a string, an array of strings, null, or a key that is absent
JAbsent == [t |-> "absent", s |-> "", a |-> <<>>]
JNull == [t |-> "null", s |-> "", a |-> <<>>]
JStr(x) == [t |-> "str", s |-> x, a |-> <<>>]
JArr(q) == [t |-> "arr", s |-> "", a |-> q]

\* encoding/json on a string field, with and without omitempty
MarshalString(x) == JStr(x)
MarshalStringOmitEmpty(x) == IF x = "" THEN JAbsent ELSE JStr(x)

\* encoding/json on a []string field: a nil slice is null; omitempty drops a
\* slice of length 0
MarshalSlice(sl) == IF sl.nil THEN JNull ELSE JArr(sl.elems)
MarshalSliceKeepEmpty(sl) == IF sl.nil THEN JNull ELSE JArr(sl.elems)
MarshalSliceOmitEmpty(sl) == IF Len(sl.elems) = 0 THEN JAbsent ELSE JArr(sl.elems)

\* json.Unmarshal into a zero string / nil slice field: absent and null leave it
UnmarshalString(j) == IF j.t = "str" THEN j.s ELSE ""
UnmarshalSlice(j) == IF j.t = "arr" THEN Slice(j.a) ELSE NilSlice

\* json.Marshal(enriched) by the struct tags of model.EnrichedIdea
MarshalEnriched(e) ==
    [title |-> MarshalString(e.Title),
     summary |-> MarshalString(e.Summary),
     detailed_description |-> MarshalString(e.DetailedDesc),
     category |-> MarshalString(e.Category),
     priority |-> MarshalString(e.Priority),
     complexity |-> MarshalString(e.Complexity),
     affected_components |-> MarshalSlice(e.AffectedComponents),
     user_story |-> MarshalString(e.UserStory),
     acceptance_criteria |-> MarshalSlice(e.AcceptanceCriteria),
     technical_notes |-> MarshalStringOmitEmpty(e.TechnicalNotes),
     related_features |-> MarshalSliceOmitEmpty(e.RelatedFeatures),
     potential_risks |-> MarshalSliceOmitEmpty(e.PotentialRisks)]

\* json.Unmarshal(text, &enriched) of a JSON object into the zero value
UnmarshalEnriched(j) ==
    [nil |-> FALSE,
     Title |-> UnmarshalString(j.title),
     Summary |-> UnmarshalString(j.summary),
     DetailedDesc |-> UnmarshalString(j.detailed_description),
     Category |-> UnmarshalString(j.category),
     Priority |-> UnmarshalString(j.priority),
     Complexity |-> UnmarshalString(j.complexity),
     AffectedComponents |-> UnmarshalSlice(j.affected_components),
     UserStory |-> UnmarshalString(j.user_story),
     AcceptanceCriteria |-> UnmarshalSlice(j.acceptance_criteria),
     TechnicalNotes |-> UnmarshalString(j.technical_notes),
     RelatedFeatures |-> UnmarshalSlice(j.related_features),
     PotentialRisks |-> UnmarshalSlice(j.potential_risks)]

\* a TEXT column holding JSON: the empty string '' or a document
NoJSON == [empty |-> TRUE, doc |-> MarshalEnriched(ZeroEnriched)]
JSONText(j) == [empty |-> FALSE, doc |-> j]

\* the TEXT column affected_repos: '' or the JSON of a []string
NoRepos == [empty |-> TRUE, val |-> JNull]
ReposText(j) == [empty |-> FALSE, val |-> j]

\* model.IdeaStatus
StatusNew == "new"
StatusReviewed == "reviewed"
StatusAccepted == "accepted"
StatusRejected == "rejected"
StatusInProgress == "in_progress"
StatusImplemented == "implemented"

\* a row of table ideas (the columns the pipeline reads or writes); none: no
\* row.  created_at is CURRENT_TIMESTAMP at the INSERT, in clock ticks: rows
\* inserted within one tick carry the same value.
NoRow ==
    [none |-> TRUE, telegram_user_id |-> 0, raw_text |-> "", status |-> "",
     enriched_json |-> NoJSON, title |-> "", category |-> "", priority |-> "",
     complexity |-> "", affected_repos |-> NoRepos, created_at |-> 0]

\* model.Idea; nil: a nil *Idea
NilIdea ==
    [nil |-> TRUE, ID |-> 0, TelegramUserID |-> 0, RawText |-> "", Status |-> "",
     EnrichedJSON |-> NoJSON, Enriched |-> NilEnriched, Title |-> "", Category |-> "",
     Priority |-> "", Complexity |-> "", AffectedComponents |-> NilSlice]

\* Idea.ParseEnriched: nothing for '', else a fresh EnrichedIdea filled from it
ParseEnriched(text) == IF text.empty THEN NilEnriched ELSE UnmarshalEnriched(text.doc)

\* GetByID's Scan of a row and the two parses that follow it
ScanIdea(id, row) ==
    [nil |-> FALSE, ID |-> id, TelegramUserID |-> row.telegram_user_id,
     RawText |-> row.raw_text, Status |-> row.status,
     EnrichedJSON |-> row.enriched_json,
     Enriched |-> ParseEnriched(row.enriched_json),
     Title |-> row.title, Category |-> row.category, Priority |-> row.priority,
     Complexity |-> row.complexity,
     AffectedComponents |-> IF row.affected_repos.empty THEN NilSlice
                            ELSE UnmarshalSlice(row.affected_repos.val)]

\* the row Create INSERTs at time 0: the input's columns, status 'new', the
\* schema's defaults '' elsewhere
InsertedRow(u, x) ==
    [NoRow EXCEPT !.none = FALSE, !.telegram_user_id = u, !.raw_text = x,
                  !.status = StatusNew]

\* the row Create INSERTs at time ts
InsertedRowAt(u, x, ts) == [InsertedRow(u, x) EXCEPT !.created_at = ts]

\* the row after UpdateEnriched's UPDATE
UpdatedRow(row, e) ==
    [row EXCEPT !.enriched_json = JSONText(MarshalEnriched(e)),
                !.title = e.Title, !.category = e.Category, !.priority = e.Priority,
                !.complexity = e.Complexity,
                !.affected_repos = ReposText(MarshalSlice(e.AffectedComponents))]

\* model.IdeaSummary of a row
Summary(id, row) == [ID |-> id, Title |-> row.title, RawText |-> row.raw_text]

\* a WHERE clause that keeps every status
AnyStatus(st) == TRUE

\* ListSummaries' WHERE clause
ActiveStatus(st) == st \notin {StatusRejected, StatusImplemented}

\* ------------------------------------------------------------------- state
VARIABLES
    now,          \* the clock, in ticks
    globalLimit,  \* RateLimiter.globalLimit
    limiters,     \* the *rate.Limiter objects of the per-user map, by address
    userLimits,   \* RateLimiter.userLimits: user -> address (0: no entry)
    task,         \* per goroutine: position in the code and its locals
    hist,         \* per goroutine: what its current call observed (history)
    calls,        \* Allow calls started so far
    ideas,        \* table ideas: id -> row
    lastID,       \* the table's AUTOINCREMENT sequence
    denyUntil,    \* history: per user, refill point of its exhausted bucket (0: none)
    denyUntilC,   \* history: the same, forgotten when Cleanup drops the buckets
    admitted      \* history: per user, admissions within the first hour

limiterVars == <<now, globalLimit, limiters, userLimits>>
histVars == <<hist, denyUntil, denyUntilC, admitted>>
dbVars == <<ideas, lastID>>
vars == <<now, globalLimit, limiters, userLimits, task, hist, calls,
          ideas, lastID, denyUntil, denyUntilC, admitted>>

\* the error CreateAndEnrich returns
NoErr == "nil"
ErrRateLimit == "rate limit exceeded"
ErrDuplicate == "duplicate of idea"
ErrCreate == "failed to create idea"
ErrClaude == "claude error"

\* *DuplicateError
NoDuplicateError == [SimilarID |-> 0, Reason |-> ""]

\* primary keys of table ideas
IDs == 1..MaxIdeas

\* a goroutine's locals: the input (user, text), Allow's limiter and result,
\* and existingIdeas, idea, enriched, err of CreateAndEnrich; dupResult: what
\* a call of CheckDuplicate returned to it
IdleTask ==
    [pc |-> "idle", user |-> 0, text |-> "", limiter |-> 0, allow |-> FALSE,
     existingIdeas |-> <<>>, idea |-> NilIdea, enriched |-> NilEnriched,
     err |-> NoErr, dupErr |-> NoDuplicateError,
     dupResult |-> [IsDuplicate |-> FALSE, SimilarIdeaID |-> 0, Reason |-> ""]]

\* gHad, uHad: whether the global / the user's bucket held a token when the call
\* checked it ("na": not checked); deny, denyC: denyUntil, denyUntilC of the
\* caller when the call began; early, earlyC: admitted before that point
\* log: the Storage and Claude calls of the run, in order; rowID: the row its
\* INSERT made (0: none); enrich, update: how that step ended ("na": not run);
\* payload: what EnrichIdea returned; verdict: CheckDuplicate's answer when it
\* was "duplicate", seen: the ids of the window it was given then; last: the
\* Storage or Claude call the run made last and whether it returned an error;
\* resp: what kind of answer a direct call of ClaudeService got from Claude
IdleHist == [gHad |-> "na", uHad |-> "na", deny |-> 0, denyC |-> 0,
             early |-> FALSE, earlyC |-> FALSE,
             log |-> <<>>, rowID |-> 0, enrich |-> "na", update |-> "na",
             payload |-> NilEnriched, seen |-> {},
             last |-> [op |-> "na", failed |-> FALSE], resp |-> "na",
             verdict |-> [IsDuplicate |-> FALSE, SimilarIdeaID |-> 0, Reason |-> ""]]

YesNo(b) == IF b THEN "yes" ELSE "no"

\* NewRateLimiter(perUser, global), no goroutine running
Init ==
    /\ now = 0
    /\ globalLimit = NewLimiter(Global)
    /\ limiters = [a \in Addrs |-> Free]
    /\ userLimits = [u \in Users |-> 0]
    /\ task = [t \in Tasks |-> IdleTask]
    /\ hist = [t \in Tasks |-> IdleHist]
    /\ calls = 0
    /\ ideas = [id \in IDs |-> NoRow]
    /\ lastID = 0
    /\ denyUntil = [u \in Users |-> 0]
    /\ denyUntilC = [u \in Users |-> 0]
    /\ admitted = [u \in Users |-> 0]

\* ------------------------------------------------------------ RateLimiter

\* `if !rl.globalLimit.Allow() { return false }`: the global gate denies
GlobalDeniedNever(ok) == FALSE
GlobalDenied(ok) == ~ok

\* `limiter, exists := rl.userLimits[userID]`: the address found, 0 if none
LookupAnyUser(m, u) ==
    IF m[u] # 0 \/ \A v \in Users : m[v] = 0 THEN m[u]
    ELSE m[CHOOSE v \in Users : m[v] # 0]
Lookup(m, u) == m[u]

\* `return limiter.Allow()`: Allow's result from the per-user gate's
UserGateAlways(ok) == TRUE
UserGate(ok) == ok

\* the global bucket after a call that passed it ended at the per-user gate
\* with result ok: Allow leaves it as it is
GlobalRefunded(g, ok) == IF ok THEN g ELSE [g EXCEPT !.tokens = g.tokens + g.every]
GlobalAfterUserGate(g, ok) == g

\* objects neither in the map nor held by a goroutine are garbage
Collect(heap, m, tk) ==
    [a \in Addrs |-> IF (\E u \in Users : m[u] = a) \/ (\E t \in Tasks : tk[t].limiter = a)
                     THEN heap[a] ELSE Free]

\* the slots whose call has returned: a goroutine slot takes the next call
Reusable(pcs) == {t \in Tasks : task[t].pc \in pcs}
FirstReusable(pcs) == CHOOSE t \in Reusable(pcs) : \A s \in Reusable(pcs) : t <= s

\* entry of Allow(userID)
EnterAllow(t, u, x) ==
    /\ calls < MaxSubmissions
    /\ calls' = calls + 1
    /\ task' = [task EXCEPT ![t] = [IdleTask EXCEPT !.pc = "allow_global", !.user = u,
                                                    !.text = x]]
    /\ hist' = [hist EXCEPT ![t] = [IdleHist EXCEPT !.deny = denyUntil[u],
                                                    !.denyC = denyUntilC[u]]]
    /\ UNCHANGED <<limiterVars, dbVars, denyUntil, denyUntilC, admitted>>

\* a caller invokes rl.Allow(u)
Call(u) ==
    /\ Reusable({"idle", "allow_ret"}) # {}
    /\ EnterAllow(FirstReusable({"idle", "allow_ret"}), u, "")

\* `return false` at the global gate: the call ends before the map is read
GlobalDenialIgnored(tk) == [tk EXCEPT !.pc = "allow_lookup"]
DeniedByGlobal(tk) == [tk EXCEPT !.pc = "allow_ret", !.allow = FALSE]

\* Allow, the global gate: rl.globalLimit.Allow()
AllowGlobal(t) ==
    /\ task[t].pc = "allow_global"
    /\ LET r == LimiterAllow(globalLimit)
           h == [hist[t] EXCEPT !.gHad = YesNo(HasToken(globalLimit))]
       IN /\ globalLimit' = r[2]
          /\ hist' = [hist EXCEPT ![t] = h]
          /\ IF GlobalDenied(r[1])
             THEN task' = [task EXCEPT ![t] = DeniedByGlobal(task[t])]
             ELSE task' = [task EXCEPT ![t].pc = "allow_lookup"]
    /\ UNCHANGED <<now, limiters, userLimits, calls, dbVars,
                   denyUntil, denyUntilC, admitted>>

\* Allow, under rl.mu: find the user's limiter or make a full one
AllowLookup(t) ==
    /\ task[t].pc = "allow_lookup"
    /\ LET u == task[t].user
           found == Lookup(userLimits, u)
           fresh == CHOOSE a \in Addrs : limiters[a] = Free
                                        /\ \A b \in Addrs : limiters[b] = Free => a <= b
       IN IF found # 0
          THEN /\ task' = [task EXCEPT ![t].pc = "allow_user", ![t].limiter = found]
               /\ UNCHANGED <<limiters, userLimits>>
          ELSE /\ limiters' = [limiters EXCEPT ![fresh] = NewLimiter(PerUser)]
               /\ userLimits' = [userLimits EXCEPT ![u] = fresh]
               /\ task' = [task EXCEPT ![t].pc = "allow_user", ![t].limiter = fresh]
    /\ UNCHANGED <<now, globalLimit, calls, dbVars, histVars>>

\* Allow, the per-user gate: `return limiter.Allow()`
AllowUser(t) ==
    /\ task[t].pc = "allow_user"
    /\ LET u == task[t].user
           a == task[t].limiter
           r == LimiterAllow(limiters[a])
           ok == UserGate(r[1])
           drained == r[1] /\ userLimits[u] = a /\ ~HasToken(r[2])
           refill == now + (r[2].every - r[2].tokens)
           tk == [task EXCEPT ![t].pc = "allow_ret", ![t].allow = ok, ![t].limiter = 0]
       IN /\ task' = tk
          /\ limiters' = Collect([limiters EXCEPT ![a] = r[2]], userLimits, tk)
          /\ globalLimit' = GlobalAfterUserGate(globalLimit, ok)
          /\ hist' = [hist EXCEPT ![t] =
                        [@ EXCEPT !.uHad = YesNo(HasToken(limiters[a])),
                                  !.early = ok /\ hist[t].deny > 0,
                                  !.earlyC = ok /\ hist[t].denyC > 0,
                                  !.deny = 0, !.denyC = 0]]
          /\ admitted' = IF ok /\ now < Hour THEN [admitted EXCEPT ![u] = @ + 1]
                         ELSE admitted
          /\ denyUntil' = IF drained THEN [denyUntil EXCEPT ![u] = refill] ELSE denyUntil
          /\ denyUntilC' = IF drained THEN [denyUntilC EXCEPT ![u] = refill] ELSE denyUntilC
    /\ UNCHANGED <<now, userLimits, calls, dbVars>>

\* `make(map[int64]*rate.Limiter)` in place of the map m
ClearedNothing(m) == m
Cleared(m) == [u \in DOMAIN m |-> 0]

\* RateLimiter.Cleanup: `rl.userLimits = make(map[int64]*rate.Limiter)`
Cleanup ==
    /\ userLimits' = Cleared(userLimits)
    /\ limiters' = Collect(limiters, Cleared(userLimits), task)
    /\ denyUntilC' = [u \in Users |-> 0]
    /\ hist' = [t \in Tasks |-> [hist[t] EXCEPT !.denyC = 0]]
    /\ UNCHANGED <<now, globalLimit, task, calls, dbVars, denyUntil, admitted>>

\* a refill point that has come no longer denies
Passed(d, time) == IF d <= time THEN 0 ELSE d

\* one clock tick: every limiter gains one unit, up to its burst
Tick ==
    /\ now < MaxTime
    /\ now' = now + 1
    /\ globalLimit' = Advance(globalLimit)
    /\ limiters' = [a \in Addrs |-> IF limiters[a] = Free THEN Free
                                    ELSE Advance(limiters[a])]
    /\ denyUntil' = [u \in Users |-> Passed(denyUntil[u], now + 1)]
    /\ denyUntilC' = [u \in Users |-> Passed(denyUntilC[u], now + 1)]
    /\ hist' = [t \in Tasks |-> [hist[t] EXCEPT !.deny = Passed(@, now + 1),
                                                !.denyC = Passed(@, now + 1)]]
    /\ UNCHANGED <<userLimits, task, calls, dbVars, admitted>>

\* RateLimiter alone: concurrent callers of Allow, Cleanup and the clock
NextLimiter ==
    \/ \E u \in Users : Call(u)
    \/ \E t \in Tasks : AllowGlobal(t)
    \/ \E t \in Tasks : AllowLookup(t)
    \/ \E t \in Tasks : AllowUser(t)
    \/ Cleanup
    \/ Tick

SpecLimiter == Init /\ [][NextLimiter]_vars

\* Allow without Cleanup: what the program itself runs (nothing in the
\* repository calls Cleanup)
NextAllow ==
    \/ \E u \in Users : Call(u)
    \/ \E t \in Tasks : AllowGlobal(t)
    \/ \E t \in Tasks : AllowLookup(t)
    \/ \E t \in Tasks : AllowUser(t)
    \/ Tick

SpecAllow == Init /\ [][NextAllow]_vars

\* ---------------------------------------------------------- ClaudeService
\* What the Claude request of CheckDuplicate comes back with: an error (also the
\* caller's deadline), no text, text that is no JSON object, or a JSON object
\* whose keys may be absent.
DupObject(d, i, r) == [kind |-> "json", is_duplicate |-> d, similar_idea_id |-> i, reason |-> r]
DupResponses ==
    {[kind |-> k, is_duplicate |-> "absent", similar_idea_id |-> -1, reason |-> JAbsent] :
        k \in {"error", "empty", "malformed"}}
    \cup {DupObject("false", -1, JStr("nothing alike")),
          DupObject("absent", 1, JStr("same feature")),
          DupObject("true", 1, JStr("same feature")),
          DupObject("true", -1, JAbsent)}

\* service.DuplicateResult
NotDuplicate == [IsDuplicate |-> FALSE, SimilarIdeaID |-> 0, Reason |-> ""]

\* json.Unmarshal(responseText, &result) on a JSON object (-1: key absent)
UnmarshalDuplicateResult(resp) ==
    [IsDuplicate |-> resp.is_duplicate = "true",
     SimilarIdeaID |-> IF resp.similar_idea_id = -1 THEN 0 ELSE resp.similar_idea_id,
     Reason |-> UnmarshalString(resp.reason)]

\* whether CheckDuplicate sends a request at all
DuplicateRequestSent(existing) == Len(existing) # 0

\* CheckDuplicate without its `len(existingIdeas) == 0` return
CheckDuplicateUnguarded(existing, resp) ==
    IF resp.kind = "error" THEN [err |-> TRUE, res |-> NotDuplicate]
    ELSE IF resp.kind \in {"empty", "malformed"} THEN [err |-> FALSE, res |-> NotDuplicate]
    ELSE [err |-> FALSE, res |-> UnmarshalDuplicateResult(resp)]

\* CheckDuplicate returning its parse error
CheckDuplicateStrict(existing, resp) ==
    IF Len(existing) = 0 THEN [err |-> FALSE, res |-> NotDuplicate]
    ELSE IF resp.kind \in {"error", "malformed"} THEN [err |-> TRUE, res |-> NotDuplicate]
    ELSE IF resp.kind = "empty" THEN [err |-> FALSE, res |-> NotDuplicate]
    ELSE [err |-> FALSE, res |-> UnmarshalDuplicateResult(resp)]

\* CheckDuplicate(ctx, newIdea, existingIdeas) when the request comes back
\* with resp: <<err, result>>
CheckDuplicateResult(existing, resp) ==
    IF Len(existing) = 0 THEN [err |-> FALSE, res |-> NotDuplicate]
    ELSE IF resp.kind = "error" THEN [err |-> TRUE, res |-> NotDuplicate]
    ELSE IF resp.kind \in {"empty", "malformed"} THEN [err |-> FALSE, res |-> NotDuplicate]
    ELSE [err |-> FALSE, res |-> UnmarshalDuplicateResult(resp)]

\* A JSON document Claude may answer an enrichment request with: filled
\* fields, an empty string, a list of two, a null list, an empty list and
\* absent optional fields
EnrichedDoc ==
    [title |-> JStr("Dark mode toggle"), summary |-> JStr("Add a dark theme"),
     detailed_description |-> JStr(""),
     category |-> JStr("feature"), priority |-> JStr("medium"),
     complexity |-> JStr("small"), affected_components |-> JNull,
     user_story |-> JStr("As a user I want a dark theme"),
     acceptance_criteria |-> JArr(<<"toggle exists", "choice is kept">>),
     technical_notes |-> JAbsent,
     related_features |-> JArr(<<>>), potential_risks |-> JArr(<<"contrast">>)]

\* what the Claude request of EnrichIdea comes back with
EnrichResponses ==
    {[kind |-> k, doc |-> EnrichedDoc] : k \in {"error", "empty", "malformed", "json"}}

\* EnrichIdea degrading to the zero payload as CheckDuplicate does
EnrichIdeaLenient(resp) ==
    IF resp.kind = "json" THEN [err |-> FALSE, enriched |-> UnmarshalEnriched(resp.doc)]
    ELSE IF resp.kind = "error" THEN [err |-> TRUE, enriched |-> NilEnriched]
    ELSE [err |-> FALSE, enriched |-> ZeroEnriched]

\* EnrichIdea(ctx, rawIdea, username) when the request comes back with resp
EnrichIdeaResult(resp) ==
    IF resp.kind = "json" THEN [err |-> FALSE, enriched |-> UnmarshalEnriched(resp.doc)]
    ELSE [err |-> TRUE, enriched |-> NilEnriched]

\* -------------------------------------------------------- IdeaRepository
\* ListSummaries' LIMIT
ListLimit == 100

\* ids of the rows ListSummaries selects: active ones, newest first, at most
\* ListLimit (created_at grows with the id)
RECURSIVE NewestFirst(_, _)
NewestFirst(S, limit) ==
    IF S = {} \/ limit = 0 THEN <<>>
    ELSE LET m == CHOOSE x \in S : \A y \in S : y <= x
         IN <<m>> \o NewestFirst(S \ {m}, limit - 1)

ListSummariesRows(tbl) ==
    LET ids == NewestFirst({id \in IDs : ~tbl[id].none /\ ActiveStatus(tbl[id].status)},
                           ListLimit)
    IN [k \in 1..Len(ids) |-> Summary(ids[k], tbl[ids[k]])]

\* GetByID(id) when the query itself works: <<err, idea>>; no row is
\* sql.ErrNoRows
GetByID(tbl, id) ==
    IF id \in IDs /\ ~tbl[id].none THEN [err |-> FALSE, idea |-> ScanIdea(id, tbl[id])]
    ELSE [err |-> TRUE, idea |-> NilIdea]

\* an UPDATE whose WHERE clause is dropped: every row takes the payload
UpdateEnrichedEveryRow(tbl, id, e) ==
    [i \in IDs |-> IF tbl[i].none THEN tbl[i] ELSE UpdatedRow(tbl[i], e)]

\* the table after UpdateEnriched(id, enriched): an UPDATE matching no row
\* changes nothing and is no error
UpdateEnrichedTable(tbl, id, e) ==
    IF id \in IDs /\ ~tbl[id].none THEN [tbl EXCEPT ![id] = UpdatedRow(tbl[id], e)]
    ELSE tbl

\* ------------------------------------------- IdeaService.CreateAndEnrich
\* The exits of CreateAndEnrich: the goroutine's locals when it returns.

\* `if !s.rateLimiter.Allow(...) { return nil, nil, fmt.Errorf("rate limit exceeded") }`
RateLimitIgnored(tk) == [tk EXCEPT !.pc = "list"]
RateLimitChecked(tk) ==
    IF tk.allow THEN [tk EXCEPT !.pc = "list"]
    ELSE [tk EXCEPT !.pc = "done", !.idea = NilIdea, !.enriched = NilEnriched,
                    !.err = ErrRateLimit]

\* `return nil, nil, &DuplicateError{SimilarID: ..., Reason: ...}`
DuplicateLogged(tk, res) == [tk EXCEPT !.pc = "insert", !.existingIdeas = <<>>]
DuplicateFoundNoID(tk, res) ==
    [tk EXCEPT !.pc = "done", !.existingIdeas = <<>>, !.idea = NilIdea,
               !.enriched = NilEnriched, !.err = ErrDuplicate,
               !.dupErr = [SimilarID |-> 0, Reason |-> res.Reason]]
DuplicateFound(tk, res) ==
    [tk EXCEPT !.pc = "done", !.existingIdeas = <<>>, !.idea = NilIdea,
               !.enriched = NilEnriched, !.err = ErrDuplicate,
               !.dupErr = [SimilarID |-> res.SimilarIdeaID, Reason |-> res.Reason]]

\* `return nil, nil, fmt.Errorf("failed to create idea: %w", err)`
CreateFailed(tk) ==
    [tk EXCEPT !.pc = "done", !.idea = NilIdea, !.enriched = NilEnriched, !.err = ErrCreate]

\* the global bucket after a step of CreateAndEnrich past the rate limiter
\* that left the run with error err: no return gives a token back
GlobalReturnedOnReject(g, err) ==
    IF err \in {ErrDuplicate, ErrCreate}
    THEN [g EXCEPT !.tokens = Min(g.burst * g.every, g.tokens + g.every)]
    ELSE g
GlobalAfterReturn(g, err) == g

\* `return idea, nil, nil` after EnrichIdea failed
EnrichFailedAsError(tk) ==
    [tk EXCEPT !.pc = "done", !.idea = NilIdea, !.enriched = NilEnriched, !.err = ErrCreate]
EnrichFailed(tk) == [tk EXCEPT !.pc = "done", !.enriched = NilEnriched, !.err = NoErr]

\* UpdateEnriched failed and is called again
UpdateRetried(tk) == [tk EXCEPT !.pc = "update"]

\* UpdateEnriched failed: logged, and on to the refresh
UpdateFailedAsError(tk) ==
    [tk EXCEPT !.pc = "done", !.idea = NilIdea, !.enriched = NilEnriched, !.err = ErrCreate]
UpdateFailed(tk) == [tk EXCEPT !.pc = "refresh"]

\* `idea, _ = s.repo.GetByID(idea.ID); return idea, enriched, nil`
Refreshed(tk, got) == [tk EXCEPT !.pc = "done", !.idea = got.idea, !.err = NoErr]

\* lines 53-57: ListSummaries failed (logged, no check); ListSummaries
\* returned rows (checked only if there are any)
ListFailedAborts(tk) ==
    [tk EXCEPT !.pc = "done", !.idea = NilIdea, !.enriched = NilEnriched, !.err = ErrCreate]
ListFailed(tk) == [tk EXCEPT !.pc = "insert", !.existingIdeas = <<>>]
ListedAlwaysChecked(tk, rows) == [tk EXCEPT !.pc = "check_dup", !.existingIdeas = rows]
Listed(tk, rows) ==
    [tk EXCEPT !.pc = IF Len(rows) > 0 THEN "check_dup" ELSE "insert",
               !.existingIdeas = rows]

\* lines 58-60: CheckDuplicate returned an error (logged, on to Create)
DuplicateCheckAborts(tk) ==
    [tk EXCEPT !.pc = "done", !.existingIdeas = <<>>, !.idea = NilIdea,
               !.enriched = NilEnriched, !.err = ErrCreate]
DuplicateCheckFailed(tk) == [tk EXCEPT !.pc = "insert", !.existingIdeas = <<>>]

\* the ids of a window
WindowIDs(rows) == {rows[k].ID : k \in 1..Len(rows)}

Logged(t, entries) == [hist[t] EXCEPT !.log = @ \o entries]
Called(t, op, failed, inner) ==
    [Logged(t, <<op>> \o inner) EXCEPT !.last = [op |-> op, failed |-> failed]]

\* a goroutine of Bot.Start takes the submission (u, x) and calls
\* CreateAndEnrich, which calls Allow
Texts == {"add dark mode toggle"}

Submit(u, x) ==
    /\ Reusable({"idle", "done"}) # {}
    /\ EnterAllow(FirstReusable({"idle", "done"}), u, x)

\* lines 45-49: the branch on Allow's result
RateLimitCheck(t) ==
    /\ task[t].pc = "allow_ret"
    /\ task' = [task EXCEPT ![t] = RateLimitChecked(task[t])]
    /\ UNCHANGED <<limiterVars, calls, dbVars, histVars>>

\* lines 53-56: s.repo.ListSummaries(), which may fail
ListSummaries(t) ==
    /\ task[t].pc = "list"
    /\ \E failed \in BOOLEAN :
         /\ task' = [task EXCEPT ![t] =
                       IF failed THEN ListFailed(task[t])
                       ELSE Listed(task[t], ListSummariesRows(ideas))]
         /\ hist' = [hist EXCEPT ![t] =
                       Called(t, "ListSummaries", failed, <<>>)]
    /\ UNCHANGED <<limiterVars, calls, dbVars, denyUntil, denyUntilC, admitted>>

\* lines 57-66: s.claudeService.CheckDuplicate and the branch on its result
CheckDuplicate(t) ==
    /\ task[t].pc = "check_dup"
    /\ \E resp \in DupResponses :
         LET r == CheckDuplicateResult(task[t].existingIdeas, resp)
             sent == IF DuplicateRequestSent(task[t].existingIdeas)
                     THEN <<"Messages.New">> ELSE <<>>
             dup == ~r.err /\ r.res.IsDuplicate
         IN /\ task' = [task EXCEPT ![t] =
                          IF r.err THEN DuplicateCheckFailed(task[t])
                          ELSE IF dup THEN DuplicateFound(task[t], r.res)
                          ELSE [task[t] EXCEPT !.pc = "insert", !.existingIdeas = <<>>]]
            /\ hist' = [hist EXCEPT ![t] =
                          [Called(t, "CheckDuplicate", r.err, sent)
                             EXCEPT !.verdict = IF dup THEN r.res ELSE @,
                                    !.seen = IF dup THEN WindowIDs(task[t].existingIdeas)
                                             ELSE @]]
    /\ globalLimit' = GlobalAfterReturn(globalLimit, task'[t].err)
    /\ UNCHANGED <<now, limiters, userLimits, calls, dbVars, denyUntil, denyUntilC, admitted>>

\* lines 71-75, Create's INSERT and LastInsertId: the Exec may fail and leave
\* no row; LastInsertId may fail after the row is in
CreateInsert(t) ==
    /\ task[t].pc = "insert"
    /\ lastID < MaxIdeas
    /\ \E outcome \in {"ok", "exec failed", "no last id"} :
         IF outcome = "exec failed"
         THEN /\ task' = [task EXCEPT ![t] = CreateFailed(task[t])]
              /\ hist' = [hist EXCEPT ![t] = Called(t, "Create", TRUE, <<>>)]
              /\ UNCHANGED dbVars
         ELSE /\ lastID' = lastID + 1
              /\ ideas' = [ideas EXCEPT ![lastID + 1] =
                             InsertedRowAt(task[t].user, task[t].text, now)]
              /\ hist' = [hist EXCEPT ![t] =
                            [Called(t, "Create", outcome # "ok", <<>>)
                               EXCEPT !.rowID = lastID + 1]]
              /\ task' = [task EXCEPT ![t] =
                            IF outcome = "ok"
                            THEN [task[t] EXCEPT !.pc = "create_get",
                                                 !.idea = [NilIdea EXCEPT !.ID = lastID + 1]]
                            ELSE CreateFailed(task[t])]
    /\ globalLimit' = GlobalAfterReturn(globalLimit, task'[t].err)
    /\ UNCHANGED <<now, limiters, userLimits, calls, denyUntil, denyUntilC, admitted>>

\* Create's `return r.GetByID(id)`, which may fail
CreateGet(t) ==
    /\ task[t].pc = "create_get"
    /\ \E failed \in BOOLEAN :
         LET got == GetByID(ideas, task[t].idea.ID)
         IN /\ task' = [task EXCEPT ![t] =
                          IF failed \/ got.err THEN CreateFailed(task[t])
                          ELSE [task[t] EXCEPT !.pc = "enrich", !.idea = got.idea]]
            /\ hist' = [hist EXCEPT ![t] =
                          Called(t, "GetByID", failed \/ got.err, <<>>)]
    /\ globalLimit' = GlobalAfterReturn(globalLimit, task'[t].err)
    /\ UNCHANGED <<now, limiters, userLimits, calls, dbVars, denyUntil, denyUntilC, admitted>>

\* lines 85-90: s.claudeService.EnrichIdea and the branch on its error
EnrichIdea(t) ==
    /\ task[t].pc = "enrich"
    /\ \E resp \in EnrichResponses :
         LET r == EnrichIdeaResult(resp)
         IN /\ task' = [task EXCEPT ![t] =
                          IF r.err THEN EnrichFailed(task[t])
                          ELSE [task[t] EXCEPT !.pc = "update", !.enriched = r.enriched]]
            /\ hist' = [hist EXCEPT ![t] =
                          [Called(t, "EnrichIdea", r.err, <<"Messages.New">>)
                             EXCEPT !.enrich = IF r.err THEN "error" ELSE "ok",
                                    !.payload = r.enriched]]
    /\ UNCHANGED <<limiterVars, calls, dbVars, denyUntil, denyUntilC, admitted>>

\* lines 94-96: s.repo.UpdateEnriched, which may fail and then writes nothing
UpdateEnriched(t) ==
    /\ task[t].pc = "update"
    /\ \E failed \in BOOLEAN :
         IF failed
         THEN /\ task' = [task EXCEPT ![t] = UpdateFailed(task[t])]
              /\ hist' = [hist EXCEPT ![t] =
                            [Called(t, "UpdateEnriched", TRUE, <<>>)
                               EXCEPT !.update = "error"]]
              /\ UNCHANGED ideas
         ELSE /\ task' = [task EXCEPT ![t].pc = "refresh"]
              /\ hist' = [hist EXCEPT ![t] =
                            [Called(t, "UpdateEnriched", FALSE, <<>>)
                               EXCEPT !.update = "ok"]]
              /\ ideas' = UpdateEnrichedTable(ideas, task[t].idea.ID, task[t].enriched)
    /\ UNCHANGED <<limiterVars, calls, lastID, denyUntil, denyUntilC, admitted>>

\* lines 99-101: `idea, _ = s.repo.GetByID(idea.ID)`, which may fail, and the
\* return
Refresh(t) ==
    /\ task[t].pc = "refresh"
    /\ \E failed \in BOOLEAN :
         LET got == IF failed THEN [err |-> TRUE, idea |-> NilIdea]
                    ELSE GetByID(ideas, task[t].idea.ID)
         IN /\ task' = [task EXCEPT ![t] = Refreshed(task[t], got)]
            /\ hist' = [hist EXCEPT ![t] = Called(t, "GetByID", got.err, <<>>)]
    /\ UNCHANGED <<limiterVars, calls, dbVars, denyUntil, denyUntilC, admitted>>

\* The intake pipeline: concurrent submissions through CreateAndEnrich
Next ==
    \/ \E u \in Users, x \in Texts : Submit(u, x)
    \/ \E t \in Tasks : AllowGlobal(t)
    \/ \E t \in Tasks : AllowLookup(t)
    \/ \E t \in Tasks : AllowUser(t)
    \/ \E t \in Tasks : RateLimitCheck(t)
    \/ \E t \in Tasks : ListSummaries(t)
    \/ \E t \in Tasks : CheckDuplicate(t)
    \/ \E t \in Tasks : CreateInsert(t)
    \/ \E t \in Tasks : CreateGet(t)
    \/ \E t \in Tasks : EnrichIdea(t)
    \/ \E t \in Tasks : UpdateEnriched(t)
    \/ \E t \in Tasks : Refresh(t)

Spec == Init /\ [][Next]_vars

\* ------------------------------------------------ ClaudeService, directly
\* Callers that invoke CheckDuplicate and EnrichIdea themselves.

\* windows ListSummaries can hand over: of 0 .. MaxIdeas rows
SampleTables ==
    {[id \in IDs |-> IF id <= n THEN InsertedRow(1, "add dark mode toggle") ELSE NoRow] :
        n \in 0..MaxIdeas}
Windows == {ListSummariesRows(tbl) : tbl \in SampleTables}

\* a caller invokes CheckDuplicate(ctx, x, w)
CallCheckDuplicate(x, w) ==
    /\ Reusable({"idle", "dup_ret", "enrich_ret"}) # {}
    /\ LET t == FirstReusable({"idle", "dup_ret", "enrich_ret"})
       IN /\ task' = [task EXCEPT ![t] = [IdleTask EXCEPT !.pc = "dup_call", !.text = x,
                                                          !.existingIdeas = w]]
          /\ hist' = [hist EXCEPT ![t] = IdleHist]
    /\ UNCHANGED <<limiterVars, calls, dbVars, denyUntil, denyUntilC, admitted>>

\* CheckDuplicate runs (lines 414-480) and returns
CheckDuplicateReturn(t) ==
    /\ task[t].pc = "dup_call"
    /\ \E resp \in DupResponses :
         LET r == CheckDuplicateResult(task[t].existingIdeas, resp)
             sent == DuplicateRequestSent(task[t].existingIdeas)
         IN /\ task' = [task EXCEPT ![t].pc = "dup_ret", ![t].dupResult = r.res,
                                    ![t].err = IF r.err THEN ErrClaude ELSE NoErr]
            /\ hist' = [hist EXCEPT ![t].log = IF sent THEN <<"Messages.New">> ELSE <<>>,
                                    ![t].resp = IF sent THEN resp.kind ELSE "na"]
    /\ UNCHANGED <<limiterVars, calls, dbVars, denyUntil, denyUntilC, admitted>>

\* a caller invokes EnrichIdea(ctx, x, username)
CallEnrichIdea(x) ==
    /\ Reusable({"idle", "dup_ret", "enrich_ret"}) # {}
    /\ LET t == FirstReusable({"idle", "dup_ret", "enrich_ret"})
       IN /\ task' = [task EXCEPT ![t] = [IdleTask EXCEPT !.pc = "enrich_call", !.text = x]]
          /\ hist' = [hist EXCEPT ![t] = IdleHist]
    /\ UNCHANGED <<limiterVars, calls, dbVars, denyUntil, denyUntilC, admitted>>

\* EnrichIdea runs (lines 309-351) and returns
EnrichIdeaReturn(t) ==
    /\ task[t].pc = "enrich_call"
    /\ \E resp \in EnrichResponses :
         LET r == EnrichIdeaResult(resp)
         IN /\ task' = [task EXCEPT ![t].pc = "enrich_ret", ![t].enriched = r.enriched,
                                    ![t].err = IF r.err THEN ErrClaude ELSE NoErr]
            /\ hist' = [hist EXCEPT ![t].log = <<"Messages.New">>,
                                    ![t].resp = resp.kind]
    /\ UNCHANGED <<limiterVars, calls, dbVars, denyUntil, denyUntilC, admitted>>

NextClaude ==
    \/ \E x \in Texts, w \in Windows : CallCheckDuplicate(x, w)
    \/ \E t \in Tasks : CheckDuplicateReturn(t)
    \/ \E x \in Texts : CallEnrichIdea(x)
    \/ \E t \in Tasks : EnrichIdeaReturn(t)

SpecClaude == Init /\ [][NextClaude]_vars

\* ------------------------------------------------------------------ claims

\* the calls of Allow that have returned
AllowReturned(t) == task[t].pc \notin {"idle", "allow_global", "allow_lookup", "allow_user"}

\* the user's bucket of the map holds a token (an absent one would be made full)
UserBucketHasToken(u) == userLimits[u] = 0 \/ HasToken(limiters[userLimits[u]])

\* C1: Allow returns true only if the global bucket and the submitter's bucket
\* each held a token when the call checked it; a call that finds the global
\* bucket empty is denied without the per-user bucket being consulted, however
\* full that bucket is.
C1_AllowNeedsBothTokens ==
    \A t \in Tasks : AllowReturned(t) =>
        /\ task[t].allow => (hist[t].gHad = "yes" /\ hist[t].uHad = "yes")
        /\ hist[t].gHad = "no" => (~task[t].allow /\ hist[t].uHad = "na")

\* C1 witness: a call denied by the empty global bucket while its submitter's
\* own bucket still holds a token, after another call was admitted
C1_Witness ==
    \E t \in Tasks, s \in Tasks :
        /\ task[t].pc = "allow_ret" /\ ~task[t].allow /\ hist[t].gHad = "no"
        /\ userLimits[task[t].user] # 0 /\ HasToken(limiters[userLimits[task[t].user]])
        /\ task[s].pc = "allow_ret" /\ task[s].allow /\ task[s].user # task[t].user

\* C2: a call that passed the global gate took one global token there, and when
\* it then finds the submitter's bucket empty it returns false and leaves the
\* global bucket as it is: the token is not given back.
C2_GlobalTokenNotRefunded ==
    [][\A t \in Tasks :
          /\ (task[t].pc = "allow_global" /\ task'[t].pc = "allow_lookup")
                => globalLimit'.tokens = globalLimit.tokens - globalLimit.every
          /\ (task[t].pc = "allow_user" /\ task'[t].pc = "allow_ret"
                /\ ~HasToken(limiters[task[t].limiter]))
                => /\ hist[t].gHad = "yes"
                   /\ ~task'[t].allow
                   /\ globalLimit' = globalLimit]_vars

\* C2 witness: a returned call that passed the global gate and was denied by
\* the per-user gate
C2_Witness ==
    \E t \in Tasks : /\ task[t].pc = "allow_ret" /\ ~task[t].allow
                     /\ hist[t].gHad = "yes" /\ hist[t].uHad = "no"

\* C3 as claimed: a call begun while its submitter's bucket is exhausted is
\* never admitted before that bucket's refill point.
C3_DeniedUntilRefill == \A t \in Tasks : ~hist[t].early

\* a step of goroutine t on behalf of a submitter other than u
StepOfOther(t, u) == task'[t] # task[t] /\ task[t].user # u /\ task'[t].user # u

\* C3 as amended: a call begun while its submitter's bucket is exhausted is
\* never admitted before the refill point unless Cleanup dropped the buckets in
\* between; a denial always comes from an empty global or an empty per-user
\* bucket; and a step made for another submitter leaves this submitter's
\* bucket as it is.
C3_DeniedUntilRefillOrCleanup ==
    /\ [](\A t \in Tasks :
            /\ ~hist[t].earlyC
            /\ (AllowReturned(t) /\ ~task[t].allow)
                  => (hist[t].gHad = "no" \/ hist[t].uHad = "no"))
    /\ [][\A t \in Tasks, u \in Users :
            (StepOfOther(t, u) /\ userLimits[u] # 0)
                => /\ userLimits'[u] = userLimits[u]
                   /\ limiters'[userLimits[u]] = limiters[userLimits[u]]]_vars

\* C3 witness: a call of an exhausted submitter, begun before the refill point,
\* that passed the global gate and was denied by the per-user gate, and a call
\* of another submitter admitted in the meantime
C3_Witness ==
    \E t \in Tasks, s \in Tasks :
        /\ task[t].pc = "allow_ret" /\ ~task[t].allow
        /\ hist[t].gHad = "yes" /\ hist[t].uHad = "no"
        /\ denyUntilC[task[t].user] > now
        /\ task[s].pc = "allow_ret" /\ task[s].allow /\ task[s].user # task[t].user

RECURSIVE SumOver(_, _)
SumOver(f, S) == IF S = {} THEN 0
                 ELSE LET x == CHOOSE y \in S : TRUE IN f[x] + SumOver(f, S \ {x})

\* C4: within the first hour no submitter is admitted more than PerUser times
\* and no more than Global submissions are admitted overall.
C4_HourlyQuota ==
    /\ \A u \in Users : admitted[u] <= PerUser
    /\ SumOver(admitted, Users) <= Global

\* ---- the intake pipeline, IdeaService.CreateAndEnrich (Spec)

\* goroutine t's call of CreateAndEnrich has returned
Returned(t) == task[t].pc = "done"

\* Allow has returned false to goroutine t
Denied(t) ==
    /\ task[t].pc \notin {"idle", "allow_global", "allow_lookup", "allow_user"}
    /\ ~task[t].allow

\* the row of this call's INSERT is in the table
RowStored(t) == hist[t].rowID \in IDs /\ ~ideas[hist[t].rowID].none

\* two slices hold the same strings (nil and empty alike)
SameElems(a, b) == a.elems = b.elems

\* two EnrichedIdea hold the same content
SamePayload(a, b) ==
    /\ ~a.nil /\ ~b.nil
    /\ a.Title = b.Title /\ a.Summary = b.Summary /\ a.DetailedDesc = b.DetailedDesc
    /\ a.Category = b.Category /\ a.Priority = b.Priority
    /\ a.Complexity = b.Complexity /\ a.UserStory = b.UserStory
    /\ a.TechnicalNotes = b.TechnicalNotes
    /\ SameElems(a.AffectedComponents, b.AffectedComponents)
    /\ SameElems(a.AcceptanceCriteria, b.AcceptanceCriteria)
    /\ SameElems(a.RelatedFeatures, b.RelatedFeatures)
    /\ SameElems(a.PotentialRisks, b.PotentialRisks)

\* C5: a submission that Allow denied makes no Storage call and no Claude
\* call and creates no row, and its CreateAndEnrich returns (nil, nil, "rate
\* limit exceeded") as the very next thing it does.
C5_DeniedDoesNothing ==
    \A t \in Tasks :
        Denied(t) =>
            /\ task[t].pc \in {"allow_ret", "done"}
            /\ hist[t].log = <<>>
            /\ hist[t].rowID = 0
            /\ Returned(t) =>
                 /\ task[t].err = ErrRateLimit
                 /\ task[t].idea = NilIdea
                 /\ task[t].enriched = NilEnriched

\* a denied submission has returned while the table holds the row of another
C5_Witness ==
    \E t \in Tasks :
        /\ Denied(t) /\ Returned(t) /\ task[t].err = ErrRateLimit
        /\ \E id \in IDs : ~ideas[id].none

\* C6: once CheckDuplicate has answered "duplicate", the call ends with a
\* DuplicateError holding the answer's similar_idea_id and reason, and it
\* never calls Create, EnrichIdea or UpdateEnriched, so it adds no row.
C6_DuplicateAborts ==
    \A t \in Tasks :
        hist[t].verdict.IsDuplicate =>
            /\ Returned(t)
            /\ task[t].err = ErrDuplicate
            /\ task[t].dupErr = [SimilarID |-> hist[t].verdict.SimilarIdeaID,
                                 Reason |-> hist[t].verdict.Reason]
            /\ task[t].idea = NilIdea /\ task[t].enriched = NilEnriched
            /\ hist[t].rowID = 0
            /\ \A k \in 1..Len(hist[t].log) :
                 hist[t].log[k] \notin {"Create", "EnrichIdea", "UpdateEnriched"}

\* a call has ended with a DuplicateError that names idea 1 and gives a reason
C6_Witness ==
    \E t \in Tasks :
        /\ Returned(t) /\ task[t].err = ErrDuplicate
        /\ hist[t].verdict.IsDuplicate
        /\ task[t].dupErr = [SimilarID |-> 1, Reason |-> "same feature"]
        /\ ~ideas[1].none

\* C7: a call that ends with "failed to create idea" has left no row of its
\* own in the table.
C7_CreateAllOrNothing ==
    \A t \in Tasks :
        (Returned(t) /\ task[t].err = ErrCreate) => ~RowStored(t)

\* C8: when EnrichIdea fails, the call returns (idea, nil, nil) with the idea
\* Create returned; the row is in the table with status 'new' and an empty
\* enriched_json; UpdateEnriched has not been called.
C8_EnrichFailureKeepsRecord ==
    \A t \in Tasks :
        hist[t].enrich = "error" =>
            /\ Returned(t)
            /\ task[t].err = NoErr
            /\ task[t].enriched = NilEnriched
            /\ ~task[t].idea.nil
            /\ task[t].idea.ID = hist[t].rowID
            /\ task[t].idea.Status = StatusNew
            /\ task[t].idea.Enriched = NilEnriched
            /\ RowStored(t)
            /\ ideas[hist[t].rowID].status = StatusNew
            /\ ideas[hist[t].rowID].enriched_json = NoJSON
            /\ hist[t].update = "na"
            /\ \A k \in 1..Len(hist[t].log) : hist[t].log[k] # "UpdateEnriched"

\* a call whose EnrichIdea failed has returned its record
C8_Witness ==
    \E t \in Tasks :
        /\ hist[t].enrich = "error" /\ Returned(t)
        /\ task[t].err = NoErr /\ ~task[t].idea.nil /\ RowStored(t)

\* C9: when EnrichIdea succeeds and UpdateEnriched fails, the call goes on and
\* returns the payload EnrichIdea produced with a nil error, and the row keeps
\* its empty enriched_json and empty title.
C9_PersistFailureAbsorbed ==
    \A t \in Tasks :
        hist[t].update = "error" =>
            /\ hist[t].enrich = "ok"
            /\ task[t].pc \in {"refresh", "done"}
            /\ task[t].enriched = hist[t].payload
            /\ ~task[t].enriched.nil
            /\ RowStored(t)
            /\ ideas[hist[t].rowID].enriched_json = NoJSON
            /\ ideas[hist[t].rowID].title = ""
            /\ Returned(t) => task[t].err = NoErr

\* a call whose UpdateEnriched failed has returned the payload
C9_Witness ==
    \E t \in Tasks :
        /\ hist[t].update = "error" /\ Returned(t)
        /\ task[t].err = NoErr /\ ~task[t].enriched.nil
        /\ ideas[hist[t].rowID].enriched_json = NoJSON

\* C10: when EnrichIdea and UpdateEnriched both succeed, the returned idea is
\* the row as re-read: its title, category, priority, complexity, affected
\* components and payload are those of the returned payload and of the row.
C10_ReturnedMatchesStored ==
    \A t \in Tasks :
        (Returned(t) /\ hist[t].update = "ok") =>
            /\ task[t].err = NoErr
            /\ ~task[t].idea.nil
            /\ task[t].idea.ID = hist[t].rowID
            /\ RowStored(t)
            /\ task[t].idea = ScanIdea(hist[t].rowID, ideas[hist[t].rowID])
            /\ task[t].idea.Title = task[t].enriched.Title
            /\ task[t].idea.Category = task[t].enriched.Category
            /\ task[t].idea.Priority = task[t].enriched.Priority
            /\ task[t].idea.Complexity = task[t].enriched.Complexity
            /\ SameElems(task[t].idea.AffectedComponents,
                         task[t].enriched.AffectedComponents)
            /\ SamePayload(task[t].idea.Enriched, task[t].enriched)

\* the run's latest call was op, and it returned an error
LastFailed(t, op) == hist[t].last = [op |-> op, failed |-> TRUE]

\* the next step of goroutine t's run
StepOf(t) == hist'[t] # hist[t]

\* C11: when ListSummaries fails, the run is exactly where an empty window
\* would have put it: it has an empty window, is about to call Create, has not
\* returned and has made no duplicate check; and the next thing it does is
\* call Create.
C11_FetchFailureAsEmpty ==
    /\ [](\A t \in Tasks :
            LastFailed(t, "ListSummaries") =>
                /\ task[t] = Listed(task[t], <<>>)
                /\ task[t].pc = "insert"
                /\ task[t].err = NoErr
                /\ hist[t].log = <<"ListSummaries">>)
    /\ [][\A t \in Tasks :
            (LastFailed(t, "ListSummaries") /\ StepOf(t)) =>
                /\ hist'[t].last.op = "Create"
                /\ hist'[t].log = <<"ListSummaries", "Create">>]_vars

\* ListSummaries has failed for a submission while the table held a row it
\* would have put in the window
C11_Witness ==
    \E t \in Tasks :
        /\ LastFailed(t, "ListSummaries")
        /\ Len(ListSummariesRows(ideas)) > 0

\* the run's latest call was op, and it returned no error
LastOK(t, op) == hist[t].last = [op |-> op, failed |-> FALSE]

\* C12: with an empty window CheckDuplicate answers "not a duplicate" with a
\* nil error whatever Claude would have said, and sends no request; a run of
\* CreateAndEnrich that fetched an empty window goes to Create without any
\* Claude call; every duplicate rejection saw a non-empty window; and while
\* the table is empty no run is rejected as a duplicate or calls Claude.
C12_EmptyWindowNotDuplicate ==
    /\ \A resp \in DupResponses :
          CheckDuplicateResult(<<>>, resp) = [err |-> FALSE, res |-> NotDuplicate]
    /\ ~DuplicateRequestSent(<<>>)
    /\ \A t \in Tasks :
          /\ (LastOK(t, "ListSummaries") /\ task[t].existingIdeas = <<>>) =>
                (task[t].pc = "insert" /\ hist[t].log = <<"ListSummaries">>)
          /\ hist[t].verdict.IsDuplicate => hist[t].seen # {}
          /\ task[t].err = ErrDuplicate => hist[t].seen # {}
          /\ lastID = 0 =>
                /\ task[t].err # ErrDuplicate
                /\ \A k \in 1..Len(hist[t].log) :
                      hist[t].log[k] \notin {"CheckDuplicate", "Messages.New"}

\* the first submission ever has fetched the empty window and is about to
\* call Create
C12_Witness ==
    \E t \in Tasks :
        /\ LastOK(t, "ListSummaries") /\ task[t].existingIdeas = <<>>
        /\ task[t].pc = "insert" /\ lastID = 0

\* ---- ClaudeService called directly (SpecClaude)

\* C13: when Claude's answer to the duplicate check is empty or is no JSON
\* verdict, CheckDuplicate returns &DuplicateResult{IsDuplicate: false} and a
\* nil error; a JSON object without is_duplicate is "not a duplicate" too.
C13_UnparsableIsNotDuplicate ==
    \A t \in Tasks :
        task[t].pc = "dup_ret" =>
            /\ hist[t].resp \in {"empty", "malformed"} =>
                  (task[t].err = NoErr /\ task[t].dupResult = NotDuplicate)
            /\ hist[t].resp = "error" => task[t].err = ErrClaude
            /\ task[t].err # NoErr => hist[t].resp = "error"

\* CheckDuplicate has returned from a malformed answer to a non-empty window
C13_Witness ==
    \E t \in Tasks :
        /\ task[t].pc = "dup_ret" /\ hist[t].resp = "malformed"
        /\ Len(task[t].existingIdeas) > 0
        /\ task[t].err = NoErr /\ ~task[t].dupResult.IsDuplicate

\* C14: EnrichIdea returns (nil, error) when the request fails, when the
\* answer has no text and when the text does not decode; it returns a payload
\* only together with a nil error.
C14_EnrichFailsHard ==
    \A t \in Tasks :
        task[t].pc = "enrich_ret" =>
            /\ hist[t].resp \in {"error", "empty", "malformed"} =>
                  (task[t].err # NoErr /\ task[t].enriched = NilEnriched)
            /\ task[t].err = NoErr <=> ~task[t].enriched.nil
            /\ hist[t].log = <<"Messages.New">>

\* EnrichIdea has returned an error for an answer that does not decode
C14_Witness ==
    \E t \in Tasks :
        /\ task[t].pc = "enrich_ret" /\ hist[t].resp = "malformed"
        /\ task[t].err = ErrClaude /\ task[t].enriched.nil

\* ---- the intake pipeline again (Spec)

\* C15: when the window of a run holds the row of an earlier submission and
\* Claude answers "duplicate" naming that row, the run returns a
\* DuplicateError whose SimilarID is that row's id, and the run inserts no row;
\* the row it names is in the table.
C15_LaterDuplicateRejected ==
    \A t \in Tasks : \A a \in IDs :
        (/\ hist[t].verdict.IsDuplicate
         /\ hist[t].verdict.SimilarIdeaID = a
         /\ a \in hist[t].seen) =>
            /\ Returned(t)
            /\ task[t].err = ErrDuplicate
            /\ task[t].dupErr.SimilarID = a
            /\ task[t].idea = NilIdea
            /\ ~ideas[a].none
            /\ hist[t].rowID = 0
            /\ lastID >= a
            /\ \A k \in 1..Len(hist[t].log) : hist[t].log[k] # "Create"

\* submission A has run to the end (row 1 carries its payload) and a later
\* submission B, whose window held row 1, was rejected as a duplicate of 1
C15_Witness ==
    \E t \in Tasks :
        /\ Returned(t) /\ task[t].err = ErrDuplicate
        /\ task[t].dupErr.SimilarID = 1 /\ 1 \in hist[t].seen
        /\ ~ideas[1].none /\ ~ideas[1].enriched_json.empty
        /\ hist[t].rowID = 0

\* the rows in the table
Stored == {id \in IDs : ~ideas[id].none}

\* C16: nothing orders one run's fetch after another run's Create.  A run
\* checks for duplicates only against a non-empty window of rows that were in
\* the table when it fetched; a run that is past the check takes Create as its
\* next step and is not rejected there, and a Create that succeeds gives it a
\* row of its own holding its submission; two runs never share a row.
C16_RacingSubmissionsBothCreate ==
    /\ [](\A t \in Tasks :
            /\ task[t].pc = "check_dup" =>
                  /\ Len(task[t].existingIdeas) > 0
                  /\ WindowIDs(task[t].existingIdeas) \subseteq Stored
            /\ hist[t].rowID # 0 =>
                  /\ RowStored(t)
                  /\ ideas[hist[t].rowID].telegram_user_id = task[t].user
                  /\ ideas[hist[t].rowID].raw_text = task[t].text
                  /\ task[t].err # ErrDuplicate
            /\ \A u \in Tasks \ {t} :
                  hist[t].rowID # 0 => hist[u].rowID # hist[t].rowID)
    /\ [][\A t \in Tasks :
            (task[t].pc = "insert" /\ StepOf(t)) =>
                /\ hist'[t].last.op = "Create"
                /\ task'[t].err # ErrDuplicate
                /\ ~hist'[t].last.failed =>
                      (hist'[t].rowID = lastID + 1 /\ ~ideas'[lastID + 1].none)]_vars

\* both goroutines fetched the window before either created its row, so
\* neither called CheckDuplicate; both returned a record, and the table holds
\* two rows with the same text
C16_Witness ==
    /\ \A t \in Tasks :
          /\ Returned(t) /\ task[t].err = NoErr /\ ~task[t].idea.nil
          /\ hist[t].rowID # 0
          /\ \A k \in 1..Len(hist[t].log) : hist[t].log[k] # "CheckDuplicate"
    /\ hist[1].rowID # hist[2].rowID
    /\ ideas[hist[1].rowID].raw_text = ideas[hist[2].rowID].raw_text

\* C17 as stated: a run whose CheckDuplicate call returned an error has
\* aborted: it has returned an error and no record, and it has inserted no row.
C17_DuplicateCheckErrorAborts ==
    \A t \in Tasks :
        LastFailed(t, "CheckDuplicate") =>
            /\ Returned(t)
            /\ task[t].err # NoErr
            /\ task[t].idea = NilIdea
            /\ hist[t].rowID = 0

\* C17, amended: the error of CheckDuplicate is absorbed.  The run has not
\* returned, carries no error and goes on to Create as its next call; a run
\* returns an error only from a denied Allow, a positive duplicate verdict or
\* a failed Create, and failures are otherwise absorbed (the fetch, the
\* duplicate check, the enrichment, its persistence).
C17_DuplicateCheckErrorAbsorbed ==
    /\ [](\A t \in Tasks :
            /\ LastFailed(t, "CheckDuplicate") =>
                  /\ task[t].pc = "insert"
                  /\ task[t].err = NoErr
                  /\ hist[t].rowID = 0
            /\ (Returned(t) /\ task[t].err = ErrCreate) =>
                  (hist[t].last.failed /\ hist[t].last.op \in {"Create", "GetByID"})
            /\ (Returned(t) /\ task[t].err = ErrDuplicate) =>
                  LastOK(t, "CheckDuplicate")
            /\ (Returned(t) /\ task[t].err = ErrRateLimit) => ~task[t].allow
            /\ (Returned(t) /\ hist[t].last.failed
                  /\ hist[t].last.op \in {"EnrichIdea", "UpdateEnriched"}) =>
                  task[t].err = NoErr)
    /\ [][\A t \in Tasks :
            (LastFailed(t, "CheckDuplicate") /\ StepOf(t)) =>
                /\ hist'[t].last.op = "Create"
                /\ (~hist'[t].last.failed => /\ hist'[t].rowID = lastID + 1
                                             /\ ~ideas'[lastID + 1].none)]_vars

\* CheckDuplicate has just returned an error for a run whose window held a
\* row, and the table has room for the row the run is about to insert
C17_Witness ==
    \E t \in Tasks :
        /\ LastFailed(t, "CheckDuplicate")
        /\ task[t].pc = "insert"
        /\ lastID \in 1..(MaxIdeas - 1)

\* the five outcomes a caller of CreateAndEnrich can be handed
RateLimitedOutcome(tk) ==
    tk.err = ErrRateLimit /\ tk.idea = NilIdea /\ tk.enriched = NilEnriched
DuplicateOutcome(tk) ==
    tk.err = ErrDuplicate /\ tk.idea = NilIdea /\ tk.enriched = NilEnriched
CreateFailedOutcome(tk) ==
    tk.err = ErrCreate /\ tk.idea = NilIdea /\ tk.enriched = NilEnriched
UnenrichedOutcome(tk) == tk.err = NoErr /\ ~tk.idea.nil /\ tk.enriched.nil
EnrichedOutcome(tk) == tk.err = NoErr /\ ~tk.idea.nil /\ ~tk.enriched.nil

\* C18: what a returned call of CreateAndEnrich hands back is one of the five
\* outcomes (rate-limited, duplicate-of, fatal create failure, record without
\* payload, record with payload) and never a mixture of them.
C18_ExactlyOneOutcome ==
    \A t \in Tasks :
        Returned(t) =>
            \/ RateLimitedOutcome(task[t])
            \/ DuplicateOutcome(task[t])
            \/ CreateFailedOutcome(task[t])
            \/ UnenrichedOutcome(task[t])
            \/ EnrichedOutcome(task[t])

\* how often op occurs in a log
RECURSIVE Count(_, _)
Count(q, op) ==
    IF q = <<>> THEN 0
    ELSE (IF Head(q) = op THEN 1 ELSE 0) + Count(Tail(q), op)

\* C19: a row of the table changes only when it is inserted, without a
\* payload, or when the run that inserted it writes the payload EnrichIdea
\* gave it onto the row, which had none; so a row that has a payload never
\* changes again.  A run calls UpdateEnriched at most once, with a payload
\* that is not nil, and what it writes is not the empty text.
C19_PayloadAttachedOnce ==
    /\ [](\A t \in Tasks :
            /\ Count(hist[t].log, "UpdateEnriched") <= 1
            /\ task[t].pc = "update" =>
                  /\ ~task[t].enriched.nil
                  /\ RowStored(t)
                  /\ task[t].idea.ID = hist[t].rowID
                  /\ Count(hist[t].log, "UpdateEnriched") = 0)
    /\ [][\A id \in IDs :
            ideas'[id] # ideas[id] =>
                \/ /\ ideas[id].none
                   /\ ~ideas'[id].none
                   /\ ideas'[id].enriched_json.empty
                \/ /\ ~ideas[id].none
                   /\ ideas[id].enriched_json.empty
                   /\ ~ideas'[id].enriched_json.empty
                   /\ ~ParseEnriched(ideas'[id].enriched_json).nil
                   /\ \E t \in Tasks :
                         /\ task[t].pc = "update" /\ hist[t].rowID = id
                         /\ hist'[t].last = [op |-> "UpdateEnriched", failed |-> FALSE]
                         /\ ideas'[id] = UpdatedRow(ideas[id], task[t].enriched)]_vars

\* two rows carry a payload, each written by its own run, the second after
\* the first was in place
C19_Witness ==
    /\ \A id \in IDs : ~ideas[id].none /\ ~ideas[id].enriched_json.empty
    /\ \E t \in Tasks : LastOK(t, "UpdateEnriched") /\ hist[t].rowID = MaxIdeas

\* the calls of one run of CreateAndEnrich in the order of its code, with the
\* Claude request of each ClaudeService call after it
PipelineOrder ==
    <<"ListSummaries", "CheckDuplicate", "Messages.New", "Create", "GetByID",
      "EnrichIdea", "Messages.New", "UpdateEnriched", "GetByID">>

\* q can be had from r by leaving entries out
RECURSIVE IsSubseq(_, _)
IsSubseq(q, r) ==
    IF q = <<>> THEN TRUE
    ELSE IF r = <<>> THEN FALSE
    ELSE IF Head(q) = Head(r) THEN IsSubseq(Tail(q), Tail(r))
    ELSE IsSubseq(q, Tail(r))

\* how far a run has come: Allow's three steps, then the steps of the pipeline
Rank(pc) ==
    CASE pc = "idle" -> 0
      [] pc = "allow_global" -> 1
      [] pc = "allow_lookup" -> 2
      [] pc = "allow_user" -> 3
      [] pc = "allow_ret" -> 4
      [] pc = "list" -> 5
      [] pc = "check_dup" -> 6
      [] pc = "insert" -> 7
      [] pc = "create_get" -> 8
      [] pc = "enrich" -> 9
      [] pc = "update" -> 10
      [] pc = "refresh" -> 11
      [] pc = "done" -> 12

\* the run that inserted row id is still on its way to UpdateEnriched
AwaitingEnrichment(id) ==
    \E t \in Tasks : hist[t].rowID = id /\ task[t].pc \in {"create_get", "enrich", "update"}

\* C20: a run makes its calls in the order of the code and each at most once:
\* its log is PipelineOrder with entries left out, and every step of a run
\* moves it forward (a goroutine starts over only with a new submission, at
\* Allow); a row without payload whose run is past UpdateEnriched, or has
\* returned, changes no more.
C20_NoRetries ==
    /\ [](\A t \in Tasks : IsSubseq(hist[t].log, PipelineOrder))
    /\ [][\A t \in Tasks :
            task'[t] # task[t] =>
                \/ Rank(task'[t].pc) > Rank(task[t].pc)
                \/ /\ Returned(t)
                   /\ task'[t].pc = "allow_global"
                   /\ hist'[t].log = <<>>
                   /\ calls' = calls + 1]_vars
    /\ [][\A id \in IDs :
            (/\ ~ideas[id].none
             /\ ideas[id].enriched_json.empty
             /\ ~AwaitingEnrichment(id)) => ideas'[id] = ideas[id]]_vars

\* a run whose enrichment failed has returned its record without payload, and
\* afterwards another submission went through the whole pipeline: the first
\* row is still without payload
C20_Witness ==
    /\ ~ideas[1].none /\ ideas[1].enriched_json.empty /\ ~AwaitingEnrichment(1)
    /\ \E t \in Tasks :
          /\ Returned(t) /\ hist[t].rowID = MaxIdeas
          /\ hist[t].log = <<"ListSummaries", "CheckDuplicate", "Messages.New",
                             "Create", "GetByID", "EnrichIdea", "Messages.New",
                             "UpdateEnriched", "GetByID">>

\* ------------------------------------------------ IdeaRepository, directly
\* A caller that creates a record, attaches a payload with UpdateEnriched and
\* reads the record back with GetByID.

\* values a []string field takes: nil, empty, one element, two elements
SampleSlices == {NilSlice, Slice(<<>>), Slice(<<"web">>), Slice(<<"web", "api">>)}

\* payloads handed to UpdateEnriched: the spec's example (category feature,
\* priority medium, complexity small) with and without the optional fields
Payloads ==
    {[ZeroEnriched EXCEPT !.Title = ti, !.Summary = "Add a dark theme",
                          !.Category = "feature", !.Priority = "medium",
                          !.Complexity = "small",
                          !.AffectedComponents = ac, !.AcceptanceCriteria = cr,
                          !.TechnicalNotes = tn, !.RelatedFeatures = rf,
                          !.PotentialRisks = pr] :
        ti \in {"", "Dark mode toggle"}, tn \in {"", "use css variables"},
        ac \in {NilSlice, Slice(<<>>), Slice(<<"web">>)},
        cr \in {NilSlice, Slice(<<"toggle exists">>)},
        rf \in SampleSlices, pr \in {NilSlice, Slice(<<>>), Slice(<<"contrast">>)}}

ErrUpdate == "update failed"
ErrGet == "get failed"

\* no repository call of the caller is under way
RepoIdle == \A t \in Tasks : task[t].pc \in {"idle", "rt_read"}

\* repo.Create(input) with the schema's defaults
RepoCreate(u, x) ==
    /\ RepoIdle
    /\ lastID = 0
    /\ lastID' = lastID + 1
    /\ ideas' = [ideas EXCEPT ![lastID + 1] = InsertedRowAt(u, x, now)]
    /\ UNCHANGED <<limiterVars, task, histVars, calls>>

\* repo.UpdateEnriched(id, e) on a record that has no payload yet: the UPDATE
\* may fail and then writes nothing
RepoUpdateEnriched(id, e) ==
    /\ RepoIdle
    /\ id \in IDs /\ ~ideas[id].none /\ ideas[id].enriched_json.empty
    /\ \E failed \in BOOLEAN :
         /\ ideas' = IF failed THEN ideas ELSE UpdateEnrichedTable(ideas, id, e)
         /\ task' = [task EXCEPT ![1] =
                       [IdleTask EXCEPT !.pc = "rt_written", !.enriched = e,
                                        !.idea = [NilIdea EXCEPT !.ID = id],
                                        !.err = IF failed THEN ErrUpdate ELSE NoErr]]
    /\ UNCHANGED <<limiterVars, lastID, histVars, calls>>

\* repo.GetByID(id) of the record just written, which may fail
RepoGetByID(t) ==
    /\ task[t].pc = "rt_written"
    /\ \E failed \in BOOLEAN :
         LET got == IF failed THEN [err |-> TRUE, idea |-> NilIdea]
                    ELSE GetByID(ideas, task[t].idea.ID)
         IN task' = [task EXCEPT ![t].pc = "rt_read", ![t].idea = got.idea,
                                 ![t].err = IF got.err THEN ErrGet ELSE task[t].err]
    /\ UNCHANGED <<limiterVars, dbVars, histVars, calls>>

NextRepo ==
    \/ \E u \in Users, x \in Texts : RepoCreate(u, x)
    \/ \E id \in IDs, e \in Payloads : RepoUpdateEnriched(id, e)
    \/ \E t \in Tasks : RepoGetByID(t)

SpecRepo == Init /\ [][NextRepo]_vars

\* a payload was attached and the record read back, both without error
RoundTripDone(t) == task[t].pc = "rt_read" /\ task[t].err = NoErr

\* what json.Marshal keeps of a payload: an optional list of length 0 is
\* dropped by omitempty and is read back as nil
AsStored(e) ==
    [e EXCEPT !.RelatedFeatures = IF Len(@.elems) = 0 THEN NilSlice ELSE @,
              !.PotentialRisks = IF Len(@.elems) = 0 THEN NilSlice ELSE @]

\* C21 as stated: the payload of the record read back is the payload that was
\* attached, field for field.
C21_RoundTripIdentical ==
    \A t \in Tasks :
        RoundTripDone(t) => task[t].idea.Enriched = task[t].enriched

\* C21, amended: the payload read back holds the strings and the list
\* elements of the payload that was attached; it is that payload except that
\* an optional list (RelatedFeatures, PotentialRisks) attached empty is read
\* back as nil.  The record's own columns hold the payload's title, category,
\* priority, complexity and affected components.
C21_RoundTripSameContent ==
    \A t \in Tasks :
        RoundTripDone(t) =>
            /\ SamePayload(task[t].idea.Enriched, task[t].enriched)
            /\ task[t].idea.Enriched = AsStored(task[t].enriched)
            /\ task[t].idea.Title = task[t].enriched.Title
            /\ task[t].idea.Category = task[t].enriched.Category
            /\ task[t].idea.Priority = task[t].enriched.Priority
            /\ task[t].idea.Complexity = task[t].enriched.Complexity
            /\ task[t].idea.AffectedComponents = task[t].enriched.AffectedComponents

\* a payload whose optional lists are one empty and one nil went through
C21_Witness ==
    \E t \in Tasks :
        /\ RoundTripDone(t)
        /\ task[t].enriched.RelatedFeatures = Slice(<<>>)
        /\ task[t].enriched.PotentialRisks = NilSlice
        /\ task[t].enriched.AffectedComponents = Slice(<<>>)
        /\ task[t].enriched.TechnicalNotes = ""

\* --------------------------------------------- the web handler's moderation
\* Handler.handleIdeasPost changes status and deletes rows while submissions
\* insert them; a caller fetches the candidate window with ListSummaries.

\* statuses a moderator's form posts
ModStatuses == {StatusNew, StatusAccepted, StatusRejected, StatusImplemented}

\* ids of the rows ListSummaries' WHERE clause keeps
ActiveIDs(tbl) == {id \in IDs : ~tbl[id].none /\ ActiveStatus(tbl[id].status)}

\* the results `ORDER BY created_at DESC LIMIT limit` may give on tbl: the
\* order of rows with the same created_at is the database's choice
NewestOrders(tbl, limit) ==
    LET A == ActiveIDs(tbl)
        n == Min(limit, Cardinality(A))
    IN {q \in [1..n -> A] :
          /\ \A j, k \in 1..n : j < k =>
                (q[j] # q[k] /\ tbl[q[j]].created_at >= tbl[q[k]].created_at)
          /\ \A id \in A : \A k \in 1..n :
                (\A j \in 1..n : q[j] # id) => tbl[id].created_at <= tbl[q[k]].created_at}

\* the summaries of a result
SummariesOf(tbl, q) == [k \in 1..Len(q) |-> Summary(q[k], tbl[q[k]])]

\* no caller holds a fetched window
NoWindowHeld == \A t \in Tasks : task[t].pc = "idle"

\* a submission's repo.Create inserts a row
ModCreate(u, x) ==
    /\ NoWindowHeld
    /\ lastID < MaxIdeas
    /\ lastID' = lastID + 1
    /\ ideas' = [ideas EXCEPT ![lastID + 1] = InsertedRowAt(u, x, now)]
    /\ UNCHANGED <<limiterVars, task, histVars, calls>>

\* a submission's repo.UpdateEnriched attaches the payload to its row
ModUpdateEnriched(id) ==
    /\ NoWindowHeld
    /\ ~ideas[id].none /\ ideas[id].enriched_json.empty
    /\ ideas' = UpdateEnrichedTable(ideas, id, UnmarshalEnriched(EnrichedDoc))
    /\ UNCHANGED <<limiterVars, task, histVars, calls, lastID>>

\* action "update_status": UPDATE ideas SET status = ? WHERE id = ?
HandleUpdateStatus(id, st) ==
    /\ NoWindowHeld
    /\ ~ideas[id].none
    /\ ideas' = [ideas EXCEPT ![id].status = st]
    /\ UNCHANGED <<limiterVars, task, histVars, calls, lastID>>

\* action "delete": DELETE FROM ideas WHERE id = ?
HandleDelete(id) ==
    /\ NoWindowHeld
    /\ ~ideas[id].none
    /\ ideas' = [ideas EXCEPT ![id] = NoRow]
    /\ UNCHANGED <<limiterVars, task, histVars, calls, lastID>>

\* repo.ListSummaries() returns one of the results of its query
ModListSummaries ==
    /\ NoWindowHeld
    /\ \E q \in NewestOrders(ideas, ListLimit) :
         task' = [task EXCEPT ![1] = [IdleTask EXCEPT !.pc = "mod_listed",
                                        !.existingIdeas = SummariesOf(ideas, q)]]
    /\ UNCHANGED <<limiterVars, dbVars, histVars, calls>>

\* the caller is done with the window
ModForget(t) ==
    /\ task[t].pc = "mod_listed"
    /\ task' = [task EXCEPT ![t] = IdleTask]
    /\ UNCHANGED <<limiterVars, dbVars, histVars, calls>>

\* the clock moves on after an INSERT: only inserts read CURRENT_TIMESTAMP, so
\* time that passes while no row carries the current timestamp changes nothing
ModTick ==
    /\ \E id \in IDs : ~ideas[id].none /\ ideas[id].created_at = now
    /\ Tick

NextModeration ==
    \/ \E u \in Users, x \in Texts : ModCreate(u, x)
    \/ \E id \in IDs : ModUpdateEnriched(id)
    \/ \E id \in IDs, st \in ModStatuses : HandleUpdateStatus(id, st)
    \/ \E id \in IDs : HandleDelete(id)
    \/ ModListSummaries
    \/ \E t \in Tasks : ModForget(t)
    \/ ModTick

SpecModeration == Init /\ [][NextModeration]_vars

\* a result q of the query on tbl under LIMIT limit: only active rows, no row
\* twice, at most limit of them, newest first, no active row left out that is
\* newer than one taken, and none left out at all while there is room
WindowOK(tbl, q, limit) ==
    /\ Len(q) <= limit
    /\ \A k \in 1..Len(q) :
          /\ q[k] \in IDs /\ ~tbl[q[k]].none
          /\ tbl[q[k]].status \notin {StatusRejected, StatusImplemented}
    /\ \A j, k \in 1..Len(q) : j < k =>
          (q[j] # q[k] /\ tbl[q[j]].created_at >= tbl[q[k]].created_at)
    /\ \A id \in ActiveIDs(tbl) :
          (\A k \in 1..Len(q) : q[k] # id) =>
              /\ Len(q) = limit
              /\ \A k \in 1..Len(q) : tbl[id].created_at <= tbl[q[k]].created_at

\* limits small enough to cut the window of the tables of the model
SmallLimits == 0..MaxIdeas

\* the ids of a fetched window, in its order
IDsOf(rows) == [k \in 1..Len(rows) |-> rows[k].ID]

StatusRank(st) ==
    CASE st = StatusNew -> 0
      [] st = StatusReviewed -> 1
      [] st = StatusAccepted -> 2
      [] st = StatusInProgress -> 3
      [] st = StatusImplemented -> 4
      [] st = StatusRejected -> 4

\* a change of status from a to b that does not go back
Forward(a, b) ==
    IF a \in {StatusRejected, StatusImplemented} THEN b = a
    ELSE StatusRank(b) >= StatusRank(a)

\* C23: every row carries one of the statuses, a row is inserted with status
\* new, and the status of a row only moves forward: it never returns to an
\* earlier status and never leaves rejected or implemented.
C23_StatusOnlyForward ==
    /\ [](\A id \in IDs :
            ~ideas[id].none =>
                ideas[id].status \in {StatusNew, StatusReviewed, StatusAccepted,
                                      StatusRejected, StatusInProgress,
                                      StatusImplemented})
    /\ [][\A id \in IDs :
            /\ (ideas[id].none /\ ~ideas'[id].none) => ideas'[id].status = StatusNew
            /\ (~ideas[id].none /\ ~ideas'[id].none) =>
                  Forward(ideas[id].status, ideas'[id].status)]_vars

\* ------------------------------------------ RateLimiter, a burst of calls
\* Concurrent callers of Allow with no Cleanup and no time passing in between.
NextBurst ==
    \/ \E u \in Users : Call(u)
    \/ \E t \in Tasks : AllowGlobal(t)
    \/ \E t \in Tasks : AllowLookup(t)
    \/ \E t \in Tasks : AllowUser(t)

SpecBurst == Init /\ [][NextBurst]_vars

\* the limiter objects on the heap
Buckets == {a \in Addrs : limiters[a] # Free}

\* C24: whatever the interleaving of concurrent Allow calls, there is exactly
\* one bucket for each submitter that has one and none besides (a goroutine
\* past the lookup holds the bucket the map holds for its submitter), the
\* tokens missing from a bucket are those of the calls it admitted, and no
\* submitter is admitted more than PerUser times, nor all together more than
\* Global times.
C24_OneBucketPerSubmitter ==
    /\ \A u, v \in Users :
          (userLimits[u] # 0 /\ u # v) => userLimits[u] # userLimits[v]
    /\ Buckets = {userLimits[u] : u \in {v \in Users : userLimits[v] # 0}}
    /\ \A t \in Tasks :
          task[t].pc = "allow_user" =>
              (task[t].limiter # 0 /\ task[t].limiter = userLimits[task[t].user])
    /\ \A u \in Users :
          /\ admitted[u] <= PerUser
          /\ userLimits[u] # 0 =>
                limiters[userLimits[u]].tokens = (PerUser - admitted[u]) * Every(PerUser)
    /\ SumOver(admitted, Users) <= Global
    /\ globalLimit.tokens <= (Global - SumOver(admitted, Users)) * Every(Global)

\* two concurrent first calls of a new submitter are both past the lookup and
\* hold the same bucket
C24_Witness ==
    /\ calls = Cardinality(Tasks)
    /\ \A t \in Tasks : task[t].pc = "allow_user" /\ task[t].user = 1
    /\ task[1].limiter = task[2].limiter

\* ---- RateLimiter again (SpecLimiter)

\* C25: the map never names a bucket that is not there and never one bucket
\* for two submitters.  A Cleanup step (the only step that moves neither a
\* goroutine nor the clock) leaves the map empty and the global bucket as it
\* was; a lookup that finds no bucket for its submitter stores a full one; and
\* a call whose bucket Cleanup dropped after the lookup takes its token from
\* that dropped bucket, leaving the map, its buckets and the global bucket
\* alone.
C25_CleanupDropsAllBuckets ==
    /\ [](\A u \in Users :
            userLimits[u] # 0 =>
                /\ limiters[userLimits[u]] # Free
                /\ \A v \in Users \ {u} : userLimits[v] # userLimits[u])
    /\ [][(task' = task /\ now' = now) =>
            /\ \A u \in Users : userLimits'[u] = 0
            /\ globalLimit' = globalLimit
            /\ \A t \in Tasks :
                  task[t].limiter # 0 => limiters'[task[t].limiter] = limiters[task[t].limiter]]_vars
    /\ [][\A t \in Tasks :
            (/\ task[t].pc = "allow_lookup" /\ task'[t].pc = "allow_user"
             /\ userLimits[task[t].user] = 0) =>
                /\ task'[t].limiter # 0
                /\ userLimits'[task[t].user] = task'[t].limiter
                /\ limiters'[task'[t].limiter] = NewLimiter(PerUser)
                /\ globalLimit' = globalLimit]_vars
    /\ [][\A t \in Tasks :
            (/\ task[t].pc = "allow_user" /\ task'[t].pc = "allow_ret"
             /\ userLimits[task[t].user] # task[t].limiter) =>
                /\ userLimits' = userLimits
                /\ globalLimit' = globalLimit
                /\ task'[t].allow = HasToken(limiters[task[t].limiter])
                /\ \A u \in Users :
                      userLimits[u] # 0 =>
                          limiters'[userLimits[u]] = limiters[userLimits[u]]]_vars

\* Cleanup ran between a call's lookup and its token consumption while
\* another submitter had a bucket too: the call still holds its bucket, the
\* map is empty, and the global bucket has lost the tokens of the calls
C25_Witness ==
    /\ \A u \in Users : userLimits[u] = 0
    /\ \E t \in Tasks :
          /\ task[t].pc = "allow_user" /\ task[t].limiter # 0
          /\ limiters[task[t].limiter] # Free
    /\ globalLimit.tokens < Global * Every(Global)
    /\ calls >= 2

\* ---- the intake pipeline, its return values (Spec)

\* C26: a run of CreateAndEnrich that returns a nil error returns a record,
\* and that record is the row the run inserted.
C26_NilErrorMeansRecord ==
    \A t \in Tasks :
        (Returned(t) /\ task[t].err = NoErr) =>
            /\ task[t].idea # NilIdea
            /\ hist[t].rowID # 0
            /\ task[t].idea.ID = hist[t].rowID

\* C27: the SimilarID of a DuplicateError is the id of a row of the window
\* the run gave to CheckDuplicate.
C27_DuplicateNamesWindowRow ==
    \A t \in Tasks :
        (Returned(t) /\ task[t].err = ErrDuplicate) =>
            /\ task[t].dupErr.SimilarID # 0
            /\ task[t].dupErr.SimilarID \in hist[t].seen

\* C28: a call of Allow that finds the global bucket without a token returns
\* false in that step and leaves the map, every per-user bucket and the
\* global bucket as they were; only calls that took a global token ever reach
\* the map or a per-user bucket.
C28_GlobalDenialLeavesUsersAlone ==
    /\ [](\A t \in Tasks :
            /\ task[t].pc \in {"allow_lookup", "allow_user"} => hist[t].gHad = "yes"
            /\ (task[t].pc = "allow_ret" /\ hist[t].gHad = "no") =>
                  (~task[t].allow /\ hist[t].uHad = "na" /\ task[t].limiter = 0))
    /\ [][\A t \in Tasks :
            (/\ task[t].pc = "allow_global" /\ task'[t].pc # "allow_global"
             /\ ~HasToken(globalLimit)) =>
                /\ task'[t].pc = "allow_ret" /\ ~task'[t].allow
                /\ userLimits' = userLimits
                /\ limiters' = limiters
                /\ globalLimit' = globalLimit
                /\ admitted' = admitted]_vars

\* a submitter without a bucket, never admitted, was denied by the global
\* bucket and still has no bucket
C28_Witness ==
    \E t \in Tasks :
        /\ task[t].pc = "allow_ret" /\ ~task[t].allow
        /\ hist[t].gHad = "no"
        /\ userLimits[task[t].user] = 0
        /\ admitted[task[t].user] = 0
        /\ \E v \in Users : userLimits[v] # 0

\* ---- the rate limiter inside the intake pipeline (Spec)

\* C29: a run that Allow admitted took one token from the global bucket at
\* the global gate and one from its submitter's bucket at the per-user gate,
\* and no other step of any run changes a bucket: a run that ends as a
\* duplicate, with a failed Create or with a record leaves both buckets as
\* they were, so each submitter's bucket is short of one token per admitted
\* run and the global bucket of at least one per admitted run.
C29_AdmittedRunsKeepTheirTokens ==
    /\ [](/\ \A u \in Users :
                /\ admitted[u] <= PerUser
                /\ userLimits[u] # 0 =>
                      limiters[userLimits[u]].tokens =
                          (PerUser - admitted[u]) * Every(PerUser)
          /\ globalLimit.tokens <= (Global - SumOver(admitted, Users)) * Every(Global)
          /\ \A t \in Tasks :
                (task[t].pc \notin {"idle", "allow_global", "allow_lookup", "allow_user"}
                 /\ task[t].allow) =>
                    /\ hist[t].gHad = "yes" /\ hist[t].uHad = "yes"
                    /\ admitted[task[t].user] >= 1)
    /\ [][\A t \in Tasks :
            (task[t].pc = "allow_global" /\ task'[t].pc = "allow_lookup") =>
                globalLimit'.tokens = globalLimit.tokens - globalLimit.every]_vars
    /\ [][\A t \in Tasks :
            (task[t].pc = "allow_user" /\ task'[t].pc = "allow_ret" /\ task'[t].allow) =>
                /\ limiters'[task[t].limiter].tokens =
                      limiters[task[t].limiter].tokens - limiters[task[t].limiter].every
                /\ admitted'[task[t].user] = admitted[task[t].user] + 1]_vars
    /\ [][(\A t \in Tasks : task[t].pc = "allow_global" => task'[t] = task[t]) =>
                globalLimit' = globalLimit]_vars
    /\ [][(\A t \in Tasks : task[t].pc \in {"allow_lookup", "allow_user"} =>
                                task'[t] = task[t]) =>
                (limiters' = limiters /\ userLimits' = userLimits
                 /\ admitted' = admitted)]_vars

\* a submitter's two admitted submissions left one row, the other was
\* rejected as a duplicate or failed at Create, and the submitter's next
\* submission is denied by the per-user bucket
C29_Witness ==
    \E t, r \in Tasks :
        /\ Returned(t) /\ task[t].err \in {ErrDuplicate, ErrCreate}
        /\ Returned(r) /\ task[r].err = ErrRateLimit /\ task[r].user = task[t].user
        /\ hist[r].gHad = "yes" /\ hist[r].uHad = "no"
        /\ admitted[task[t].user] = PerUser
        /\ lastID < PerUser

====
